---- MODULE Spec2Model ----
(***************************************************************************)
(* HTML to Markdown converter (html_to_markdown_v2.py, markdown_rules_v2.py *)
(* and the shared instance of html_to_markdown_interactive.py).            *)
(*                                                                         *)
(* A Python str is a sequence of one-character strings.  None is the       *)
(* one-token sequence <<"None">>, which is no str.  The grave accent      *)
(* (U+0060) cannot be written in a TLA+ string: Backtick stands for it.    *)
(***************************************************************************)
EXTENDS Integers, Sequences, FiniteSets, TLC

VARIABLES
    converters,  \* the MarkdownConverter instances built so far, in order
    cache,       \* the lru_cache of _convert_node_to_markdown (one per class)
    last,        \* the last convert call: instance, input, outcome
    log,         \* the walker frames executed by the last convert call
    ncalls,      \* number of convert calls made
    arg,         \* pure-function specifications: the argument
    res,         \* pure-function specifications: the result, once applied
    threads      \* concurrent specification: the convert call of each thread

vars == <<converters, cache, last, log, ncalls, arg, res, threads>>

None == <<"None">>
Backtick == "BACKTICK"
NotApplied == <<"NotApplied">>

----------------------------------------------------------------------------
(* Bounds *)
MaxEscLen == 3
MaxNormLen == 7
MaxCalls == 2
MaxInstances == 2

----------------------------------------------------------------------------
(* Python str helpers *)

WS == {" ", "\n", "\t"}

RECURSIVE lstrip(_)
lstrip(s) ==
    IF s = <<>> THEN <<>>
    ELSE IF Head(s) \in WS THEN lstrip(Tail(s)) ELSE s

RECURSIVE rstrip(_)
rstrip(s) ==
    IF s = <<>> THEN <<>>
    ELSE IF s[Len(s)] \in WS THEN rstrip(SubSeq(s, 1, Len(s) - 1)) ELSE s

\* str.strip()
strip(s) == rstrip(lstrip(s))

\* str.isspace(): non-empty and whitespace only
isspace(s) == s # <<>> /\ \A i \in 1..Len(s) : s[i] \in WS

\* the strings over alphabet of length up to n
RECURSIVE StrsUpTo(_, _)
StrsUpTo(alphabet, n) ==
    IF n = 0 THEN {<<>>}
    ELSE UNION {{s} \cup {Append(s, c) : c \in alphabet} : s \in StrsUpTo(alphabet, n - 1)}

\* F(v), with v evaluated once: a local name bound to the value of a call
Bind(v, F(_)) == CHOOSE y \in {F(x) : x \in {v}} : TRUE

----------------------------------------------------------------------------
(* markdown_rules_v2.escape_markdown_chars *)

\* the character class of escape_chars
escape_chars == {Backtick, "*", "_", "{", "}", "[", "]", "(", ")", "#", "+", ".", "!", "-"}

\* text.replace('\\', '\\\\')
RECURSIVE ReplaceBackslash(_)
ReplaceBackslash(s) ==
    IF s = <<>> THEN <<>>
    ELSE IF Head(s) = "\\" THEN <<"\\", "\\">> \o ReplaceBackslash(Tail(s))
         ELSE <<Head(s)>> \o ReplaceBackslash(Tail(s))

\* re.sub(escape_chars, r'\\\1', text)
RECURSIVE SubEscapeChars(_)
SubEscapeChars(s) ==
    IF s = <<>> THEN <<>>
    ELSE IF Head(s) \in escape_chars THEN <<"\\", Head(s)>> \o SubEscapeChars(Tail(s))
         ELSE <<Head(s)>> \o SubEscapeChars(Tail(s))

escape_markdown_chars_swapped(text) ==
    IF text = None \/ text = <<>> THEN <<>>
    ELSE ReplaceBackslash(SubEscapeChars(text))

escape_markdown_chars(text) ==
    IF text = None \/ text = <<>> THEN <<>>
    ELSE SubEscapeChars(ReplaceBackslash(text))

----------------------------------------------------------------------------
(* markdown_rules_v2.format_block and the clean-up of convert *)

format_block(content) == strip(content) \o <<"\n", "\n">>

\* length of the run of newlines that starts s
RECURSIVE NewlineRun(_)
NewlineRun(s) ==
    IF s = <<>> \/ Head(s) # "\n" THEN 0 ELSE 1 + NewlineRun(Tail(s))

Drop(s, n) == SubSeq(s, n + 1, Len(s))

\* re.sub(r'\n{3,}', '\n\n', s): the match is greedy, it takes the whole run
RECURSIVE SubNewlines(_)
SubNewlines(s) ==
    IF s = <<>> THEN <<>>
    ELSE LET n == NewlineRun(s)
         IN  IF n >= 3 THEN <<"\n", "\n">> \o SubNewlines(Drop(s, n))
             ELSE <<Head(s)>> \o SubNewlines(Tail(s))

\* with r'\n{3}' for the pattern: every three newlines, not every run
cleanup_sub3(markdown_content) ==
    LET RECURSIVE Sub3(_)
        Sub3(s) ==
            IF s = <<>> THEN <<>>
            ELSE IF NewlineRun(s) >= 3 THEN <<"\n", "\n">> \o Sub3(Drop(s, 3))
                 ELSE <<Head(s)>> \o Sub3(Tail(s))
    IN  Sub3(strip(markdown_content))

\* without the strip() of markdown_content
cleanup_no_strip(markdown_content) == SubNewlines(markdown_content)

\* html_to_markdown_v2.py line 220
cleanup(markdown_content) == SubNewlines(strip(markdown_content))

----------------------------------------------------------------------------
(* The parsed tree (bs4).  A node is a NavigableString (kind "text") or a  *)
(* Tag (kind "tag"); both carry the same fields so that nodes compare.     *)
(* Equality of nodes is equality of records, as in bs4: a NavigableString  *)
(* is a str and compares and hashes as its characters, whatever its        *)
(* parent; a Tag compares by name, attributes and contents.                *)

NoAttrs == [href |-> None, src |-> None, alt |-> None]

Text(s) == [kind |-> "text", name |-> "", attrs |-> NoAttrs, text |-> s, children |-> <<>>]

TagA(name, attrs, children) ==
    [kind |-> "tag", name |-> name, attrs |-> attrs, text |-> <<>>, children |-> children]

Tag(name, children) == TagA(name, NoAttrs, children)

\* element.get(key, "")
Get(element, key) == IF element.attrs[key] = None THEN <<>> ELSE element.attrs[key]

\* tags whose strings bs4 keeps in containers that get_text() leaves out
HiddenStringContainers == {"script", "style", "template"}

\* element.get_text(): the strings below element, in document order
RECURSIVE get_text(_)
RECURSIVE get_text_all(_, _, _)
get_text(element) == get_text_all(element.children, element.name, 1)
get_text_all(children, parent_name, i) ==
    IF i > Len(children) THEN <<>>
    ELSE LET child == children[i]
             here  == IF child.kind = "text"
                      THEN IF parent_name \in HiddenStringContainers THEN <<>> ELSE child.text
                      ELSE get_text(child)
         IN  here \o get_text_all(children, parent_name, i + 1)

\* element.string: the single string below element, None unless every level
\* down to it has exactly one child
RECURSIVE string(_)
string(element) ==
    IF Len(element.children) # 1 THEN None
    ELSE LET child == element.children[1]
         IN  IF child.kind = "text" THEN child.text ELSE string(child)

\* x or ""
OrEmpty(x) == IF x = None THEN <<>> ELSE x

----------------------------------------------------------------------------
(* Python formatting helpers *)

Digit == <<"0", "1", "2", "3", "4", "5", "6", "7", "8", "9">>

\* f"{n}" for n >= 0
RECURSIVE IntStr(_)
IntStr(n) == IF n < 10 THEN <<Digit[n + 1]>> ELSE IntStr(n \div 10) \o <<Digit[(n % 10) + 1]>>

\* s * n
RECURSIVE Repeat(_, _)
Repeat(s, n) == IF n <= 0 THEN <<>> ELSE s \o Repeat(s, n - 1)

\* s.split('\n')
RECURSIVE SplitLines(_, _)
SplitLines(s, line) ==
    IF s = <<>> THEN <<line>>
    ELSE IF Head(s) = "\n" THEN <<line>> \o SplitLines(Tail(s), <<>>)
         ELSE SplitLines(Tail(s), Append(line, Head(s)))

\* '\n'.join([f"> {line}" for line in lines])
RECURSIVE JoinQuoted(_)
JoinQuoted(lines) ==
    IF Len(lines) = 1 THEN <<">", " ">> \o lines[1]
    ELSE <<">", " ">> \o lines[1] \o <<"\n">> \o JoinQuoted(Tail(lines))

Fence == <<Backtick, Backtick, Backtick>>

----------------------------------------------------------------------------
(* markdown_rules_v2.MARKDOWN_RULES.  A rule returns [err, md]: err is     *)
(* "none" and md the fragment, or err names the exception it raised.       *)

Ok(md) == [err |-> "none", md |-> md]
Raise(e) == [err |-> e, md |-> <<>>]

\* 'h1' .. 'h6'
rule_h(level, children_md) ==
    format_block(Repeat(<<"#">>, level) \o <<" ">> \o strip(children_md))

rule_p(children_md) == format_block(strip(children_md))

rule_a(element, children_md) ==
    <<"[">> \o escape_markdown_chars(strip(children_md)) \o <<"]", "(">>
        \o Get(element, "href") \o <<")">>

\* 'strong' and 'b'
rule_strong(children_md) == <<"*", "*">> \o children_md \o <<"*", "*">>

\* 'em' and 'i'
rule_em(children_md) == <<"*">> \o children_md \o <<"*">>

rule_code(element) ==
    <<Backtick>> \o escape_markdown_chars(OrEmpty(string(element))) \o <<Backtick>>

rule_pre(element) ==
    format_block(Fence \o <<"\n">> \o strip(get_text(element)) \o <<"\n">> \o Fence)

rule_hr == format_block(<<"-", "-", "-">>)

\* the literal between the alt text and the src is "](" and a space
rule_img(element) ==
    <<"!", "[">> \o escape_markdown_chars(Get(element, "alt")) \o <<"]", "(", " ">>
        \o Get(element, "src") \o <<")">>

\* 'ul' and 'ol'
rule_list(children_md) == format_block(strip(children_md))

\* Adjacent string literals are joined before the conditional expression is
\* formed, so the lambda body is  (indent + number) if ol else ("* " + content)
rule_li(children_md, list_level, list_type, item_number) ==
    IF list_type = "ol"
    THEN Repeat(<<" ", " ">>, IF list_level > 0 THEN list_level - 1 ELSE 0)
             \o IntStr(item_number) \o <<".", " ">>
    ELSE <<"*", " ">> \o strip(children_md) \o <<"\n">>

rule_blockquote(children_md) ==
    format_block(JoinQuoted(SplitLines(strip(children_md), <<>>)))

Headings == {"h1", "h2", "h3", "h4", "h5", "h6"}
HeadingLevel(tag) ==
    CASE tag = "h1" -> 1 [] tag = "h2" -> 2 [] tag = "h3" -> 3
      [] tag = "h4" -> 4 [] tag = "h5" -> 5 [] tag = "h6" -> 6

DefaultRuleTags ==
    Headings \cup {"p", "a", "strong", "b", "em", "i", "code", "pre", "hr", "img",
                   "ul", "ol", "li", "blockquote"}

\* the default table: each key is bound to the lambda written under it
MARKDOWN_RULES == [t \in DefaultRuleTags |-> t]

(* Rules a caller can pass as custom_rules:                                *)
(*   custom_ok      lambda element, children_md, **kwargs: '~' + children_md *)
(*   custom_badsig  lambda element: ...      (the call raises TypeError)   *)
(*   custom_raise   a rule whose body raises KeyError                      *)
CustomRules == {"custom_ok", "custom_badsig", "custom_raise"}

\* rule(**kwargs) of _convert_node_to_markdown, for the rule bound to a key
CallRule(rule, element, children_md, list_level, list_type, item_number) ==
    CASE rule \in Headings      -> Ok(rule_h(HeadingLevel(rule), children_md))
      [] rule = "p"             -> Ok(rule_p(children_md))
      [] rule = "a"             -> Ok(rule_a(element, children_md))
      [] rule \in {"strong", "b"} -> Ok(rule_strong(children_md))
      [] rule \in {"em", "i"}   -> Ok(rule_em(children_md))
      [] rule = "code"          -> Ok(rule_code(element))
      [] rule = "pre"           -> Ok(rule_pre(element))
      [] rule = "hr"            -> Ok(rule_hr)
      [] rule = "img"           -> Ok(rule_img(element))
      [] rule \in {"ul", "ol"}  -> Ok(rule_list(children_md))
      [] rule = "li"            -> Ok(rule_li(children_md, list_level, list_type, item_number))
      [] rule = "blockquote"    -> Ok(rule_blockquote(children_md))
      [] rule = "custom_ok"     -> Ok(<<"~">> \o children_md)
      [] rule = "custom_badsig" -> Raise("TypeError")
      [] rule = "custom_raise"  -> Raise("KeyError")

----------------------------------------------------------------------------
(* MarkdownConverter._convert_node_to_markdown under functools.lru_cache.  *)
(*                                                                         *)
(* env  = [self, rules, ignore]: the instance and its two tables.          *)
(* st   = [cache, log]: the cache, and the frames of this convert call.    *)
(* The result is [err, md, cache, log]; err # "none" is an exception on    *)
(* its way up, and then md is meaningless.                                 *)
(*                                                                         *)
(* lru_cache keys a call on its positional and keyword arguments as they   *)
(* were passed: convert passes the context positionally ("pos"), the       *)
(* recursive call by keyword ("kw"), and the two never share an entry.     *)
(* maxsize=1024 is never reached here, so nothing is evicted.              *)

Key(env, form, element, list_level, list_type, item_number) ==
    [self |-> env.self, form |-> form, element |-> element,
     list_level |-> list_level, list_type |-> list_type, item_number |-> item_number]

Frame(step, form, element, parent_name, list_level, list_type, item_number, children_md, rule, md) ==
    [step |-> step, form |-> form, element |-> element, parent |-> parent_name,
     list_level |-> list_level, list_type |-> list_type, item_number |-> item_number,
     children_md |-> children_md, rule |-> rule, md |-> md]

convert_text_nostrip(text, parent_name) ==
    IF parent_name # "pre" /\ ~isspace(text) THEN escape_markdown_chars(text)
    ELSE IF parent_name = "pre" THEN text
    ELSE IF isspace(text) THEN <<>>
    ELSE escape_markdown_chars(text)

\* lines 98-117: a NavigableString
convert_text(text, parent_name) ==
    IF parent_name # "pre" /\ ~isspace(text) THEN escape_markdown_chars(strip(text))
    ELSE IF parent_name = "pre" THEN text
    ELSE IF isspace(text) THEN <<>>
    ELSE escape_markdown_chars(text)

IsLi(child) == child.kind = "tag" /\ child.name = "li"

\* a list that hands its own depth to its children
child_list_level_unchanged(tag_name, list_level) == list_level

\* lines 139, 141-146: the depth an element's children are walked at
child_list_level(tag_name, list_level) ==
    IF tag_name \in {"ul", "ol"} THEN list_level + 1 ELSE list_level

\* counting every child of an ol, not only its li elements
next_item_number_any_child(tag_name, child, current_item_number) ==
    IF tag_name = "ol" THEN current_item_number + 1 ELSE current_item_number

\* lines 161-163: the counter after child has been converted
next_item_number(tag_name, child, current_item_number) ==
    IF tag_name = "ol" /\ IsLi(child) THEN current_item_number + 1 ELSE current_item_number

RECURSIVE _convert_node_to_markdown(_, _, _, _, _, _, _, _)
RECURSIVE convert_node_body(_, _, _, _, _, _, _, _)
RECURSIVE convert_children(_, _, _, _, _, _, _, _)

\* lines 134-163: the loop over element.children, from child i on
convert_children(env, element, list_level, list_type, i, current_item_number, children_md, st) ==
    IF i > Len(element.children)
    THEN [err |-> "none", md |-> children_md, cache |-> st.cache, log |-> st.log]
    ELSE LET child == element.children[i]
             tag_name == element.name
             child_list_type == IF tag_name \in {"ul", "ol"} THEN tag_name ELSE list_type
             counted == tag_name = "ol" /\ IsLi(child)
             li_item_number == IF counted THEN current_item_number ELSE 1
             Rest(r) ==
                 IF r.err # "none" THEN r
                 ELSE convert_children(env, element, list_level, list_type, i + 1,
                                       next_item_number(tag_name, child, current_item_number),
                                       children_md \o r.md,
                                       [cache |-> r.cache, log |-> r.log])
         IN  Bind(_convert_node_to_markdown(env, "kw", child, tag_name,
                                            child_list_level(tag_name, list_level),
                                            child_list_type, li_item_number, st), Rest)

\* lines 97-185: the body, run on a cache miss
convert_node_body(env, form, element, parent_name, list_level, list_type, item_number, st) ==
    LET Done(step, children_md, rule, md, s) ==
            [err |-> "none", md |-> md, cache |-> s.cache,
             log |-> s.log \cup {Frame(step, form, element, parent_name, list_level,
                                      list_type, item_number, children_md, rule, md)}]
        tag_name == element.name
        \* lines 166-185, c being the outcome of the loop over the children
        ApplyRule(c) ==
            IF c.err # "none" THEN c
            ELSE IF tag_name \in DOMAIN env.rules
            THEN LET rule == env.rules[tag_name]
                     Returned(out) ==
                         IF out.err = "none" THEN Done("rule", c.md, rule, out.md, c)
                         ELSE IF out.err = "TypeError"
                         THEN Done("fallback", c.md, rule, c.md, c)
                         ELSE [err |-> out.err, md |-> <<>>, cache |-> c.cache,
                               log |-> c.log \cup
                                   {Frame("raised", form, element, parent_name,
                                          list_level, list_type, item_number, c.md,
                                          rule, <<>>)}]
                 IN  Bind(CallRule(rule, element, c.md, list_level, list_type, item_number),
                          Returned)
            ELSE Done("norule", c.md, "-", c.md, c)
    IN  IF element.kind = "text"
        THEN Done("text", <<>>, "-", convert_text(element.text, parent_name), st)
        ELSE IF tag_name \in env.ignore THEN Done("ignored", <<>>, "-", <<>>, st)
        ELSE IF tag_name = "br" THEN Done("br", <<>>, "-", <<"\n">>, st)
        ELSE Bind(convert_children(env, element, list_level, list_type, 1, 1, <<>>, st),
                  ApplyRule)

\* line 82: the lru_cache wrapper
_convert_node_to_markdown(env, form, element, parent_name, list_level, list_type, item_number, st) ==
    LET key == Key(env, form, element, list_level, list_type, item_number)
        Store(r) ==
            IF r.err # "none" THEN r
            ELSE [r EXCEPT !.cache = r.cache \cup {[key |-> key, md |-> r.md]}]
        Lookup(hits) ==
            IF hits # {}
            THEN LET md == (CHOOSE e \in hits : TRUE).md
                 IN  [err |-> "none", md |-> md, cache |-> st.cache,
                      log |-> st.log \cup {Frame("hit", form, element, parent_name,
                                                list_level, list_type, item_number,
                                                <<>>, "-", md)}]
            ELSE Bind(convert_node_body(env, form, element, parent_name, list_level,
                                        list_type, item_number, st), Store)
    IN  Bind({e \in st.cache : e.key = key}, Lookup)

----------------------------------------------------------------------------
(* MarkdownConverter.__init__, _validate_input and convert *)

default_ignore == {"script", "style", "head", "title", "meta", "link"}

\* lines 30-39: the two tables of a new instance
NewConverter(custom_rules, ignore_tags) ==
    [rules  |-> custom_rules @@ MARKDOWN_RULES,
     ignore |-> default_ignore \cup ignore_tags]

\* An input of convert: the string html_content, and dom, the children of
\* the BeautifulSoup object the external parser builds from it.
HasTag(dom) == \E i \in 1..Len(dom) : dom[i].kind = "tag"

\* without the test of html_content.strip()
_validate_input_no_strip(html_content, dom) ==
    IF html_content = None \/ html_content = <<>>
    THEN "ValueError"
    ELSE IF ~HasTag(dom) /\ dom = <<>> THEN "ValueError"
    ELSE "ok"

\* lines 61-76: "ok", or the exception raised
_validate_input(html_content, dom) ==
    IF html_content = None \/ html_content = <<>> \/ strip(html_content) = <<>>
    THEN "ValueError"
    ELSE IF ~HasTag(dom) /\ dom = <<>> THEN "ValueError"
    ELSE "ok"

\* soup.body: the first Tag named body, in document order; <<>> when none
RECURSIVE FindBody(_, _)
FindBody(nodes, i) ==
    IF i > Len(nodes) THEN <<>>
    ELSE LET n == nodes[i]
             Found(below) == IF below # <<>> THEN below ELSE FindBody(nodes, i + 1)
         IN  IF n.kind = "tag" /\ n.name = "body" THEN <<n>>
             ELSE IF n.kind = "tag" THEN Bind(FindBody(n.children, 1), Found)
             ELSE FindBody(nodes, i + 1)

\* line 211: the root element, as [name, children]
root_element(dom) ==
    LET Root(body) ==
            IF body # <<>> THEN [name |-> "body", children |-> body[1].children]
            ELSE [name |-> "[document]", children |-> dom]
    IN  Bind(FindBody(dom, 1), Root)

\* line 216: the list comprehension over root_element.children
RECURSIVE convert_parts(_, _, _, _, _)
convert_parts(env, root, i, markdown_content, st) ==
    IF i > Len(root.children)
    THEN [err |-> "none", md |-> markdown_content, cache |-> st.cache, log |-> st.log]
    ELSE LET Rest(r) ==
                 IF r.err # "none" THEN r
                 ELSE convert_parts(env, root, i + 1, markdown_content \o r.md,
                                    [cache |-> r.cache, log |-> r.log])
         IN  Bind(_convert_node_to_markdown(env, "pos", root.children[i], root.name,
                                            0, "None", 1, st), Rest)

\* lines 188-223: [status, out, cache, log]; status is "ok" or the exception
\* that leaves convert
convert(env, html_content, dom, cache_before) ==
    IF _validate_input(html_content, dom) # "ok"
    THEN [status |-> "ValueError", out |-> <<>>, cache |-> cache_before, log |-> {}]
    ELSE LET Finish(r) ==
                 IF r.err # "none"
                 THEN [status |-> r.err, out |-> <<>>, cache |-> r.cache, log |-> r.log]
                 ELSE [status |-> "ok", out |-> cleanup(r.md), cache |-> r.cache,
                       log |-> r.log]
         IN  Bind(convert_parts(env, root_element(dom), 1, <<>>,
                                [cache |-> cache_before, log |-> {}]), Finish)

----------------------------------------------------------------------------
(* Inputs.  The HTML parser is an external service: an input pairs the     *)
(* string handed to convert with the tree html.parser builds from it.      *)
(* The markup of a string is written as tokens ("<", "pre", ">", ...).     *)

RECURSIVE Serialize(_, _)
SerializeAttr(element, key) ==
    IF element.attrs[key] = None THEN <<>>
    ELSE <<" ", key, "=", "\"">> \o element.attrs[key] \o <<"\"">>
SerializeNode(n) ==
    IF n.kind = "text" THEN n.text
    ELSE <<"<", n.name>> \o SerializeAttr(n, "href") \o SerializeAttr(n, "src")
             \o SerializeAttr(n, "alt") \o <<">">>
             \o (IF n.name \in {"br", "hr", "img"} THEN <<>>
                 ELSE Serialize(n.children, 1) \o <<"</", n.name, ">">>)
Serialize(nodes, i) ==
    IF i > Len(nodes) THEN <<>> ELSE SerializeNode(nodes[i]) \o Serialize(nodes, i + 1)

Li(children) == Tag("li", children)

\* <ol><li>A<ol><li>B</li><li>C</li></ol></li><li>D</li></ol>
DocNestedOl ==
    <<Tag("ol", <<Li(<<Text(<<"A">>),
                       Tag("ol", <<Li(<<Text(<<"B">>)>>), Li(<<Text(<<"C">>)>>)>>)>>),
                  Li(<<Text(<<"D">>)>>)>>)>>

\* <ul><li>a<ul><li>b<ul><li>c</li></ul></li></ul></li><li> d </li></ul>
DocNestedUl ==
    <<Tag("ul", <<Li(<<Text(<<"a">>),
                       Tag("ul", <<Li(<<Text(<<"b">>),
                                        Tag("ul", <<Li(<<Text(<<"c">>)>>)>>)>>)>>)>>),
                  Li(<<Text(<<" ", "d", " ">>)>>)>>)>>

\* <ul><li>x<ol><li>y</li>\n<li>z</li></ol></li></ul><li>w</li>
DocMixedList ==
    <<Tag("ul", <<Li(<<Text(<<"x">>),
                       Tag("ol", <<Li(<<Text(<<"y">>)>>), Text(<<"\n">>),
                                   Li(<<Text(<<"z">>)>>)>>)>>)>>),
      Li(<<Text(<<"w">>)>>)>>

\* <p>Hello <strong>world</strong>!</p>
DocHello ==
    <<Tag("p", <<Text(<<"H", "e", "l", "l", "o", " ">>),
                 Tag("strong", <<Text(<<"w", "o", "r", "l", "d">>)>>),
                 Text(<<"!">>)>>)>>

\* <pre>  a    b\nc</pre>
DocPreSpaces ==
    <<Tag("pre", <<Text(<<" ", " ", "a", " ", " ", " ", " ", "b", "\n", "c">>)>>)>>

\* <pre>a\n\n\nb</pre>
DocPreBlank == <<Tag("pre", <<Text(<<"a", "\n", "\n", "\n", "b">>)>>)>>

\* <pre>x*y</pre><p>z</p>
DocPreStar == <<Tag("pre", <<Text(<<"x", "*", "y">>)>>), Tag("p", <<Text(<<"z">>)>>)>>

\* <code>x*y</code>
DocCode == <<Tag("code", <<Text(<<"x", "*", "y">>)>>)>>

\* <code>x<b>y</b></code>
DocCodeMixed == <<Tag("code", <<Text(<<"x">>), Tag("b", <<Text(<<"y">>)>>)>>)>>

\* <code><b>y_</b></code>
DocCodeNested == <<Tag("code", <<Tag("b", <<Text(<<"y", "_">>)>>)>>)>>

\* <p>x*y</p>
DocStar == <<Tag("p", <<Text(<<"x", "*", "y">>)>>)>>

\* <script>alert(1)</script><p>a</p><style>b</style>
DocScript ==
    <<Tag("script", <<Text(<<"a", "l", "e", "r", "t", "(", "1", ")">>)>>),
      Tag("p", <<Text(<<"a">>)>>),
      Tag("style", <<Text(<<"b">>)>>)>>

\* <pre>a<title>x</title></pre>
DocPreTitle == <<Tag("pre", <<Text(<<"a">>), Tag("title", <<Text(<<"x">>)>>)>>)>>

\* <code><script>alert(1)</script></code>
DocCodeScript ==
    <<Tag("code", <<Tag("script", <<Text(<<"a", "l", "e", "r", "t", "(", "1", ")">>)>>)>>)>>

\* <foo>text</foo>
DocFoo == <<Tag("foo", <<Text(<<"t", "e", "x", "t">>)>>)>>

\* <html><head><title>t</title></head><body><h1>T</h1>a<br>b<h2>U</h2></body></html>
DocHtml ==
    <<Tag("html", <<Tag("head", <<Tag("title", <<Text(<<"t">>)>>)>>),
                    Tag("body", <<Tag("h1", <<Text(<<"T">>)>>), Text(<<"a">>),
                                  Tag("br", <<>>), Text(<<"b">>),
                                  Tag("h2", <<Text(<<"U">>)>>)>>)>>)>>

\* <a href="u.v">x.</a><img alt="a*" src="s"><img>
DocLink ==
    <<TagA("a", [NoAttrs EXCEPT !.href = <<"u", ".", "v">>], <<Text(<<"x", ".">>)>>),
      TagA("img", [NoAttrs EXCEPT !.alt = <<"a", "*">>, !.src = <<"s">>], <<>>),
      Tag("img", <<>>)>>

\* <blockquote>a<br>b</blockquote><hr><p><i>c</i><em>d</em></p>
DocQuote ==
    <<Tag("blockquote", <<Text(<<"a">>), Tag("br", <<>>), Text(<<"b">>)>>),
      Tag("hr", <<>>),
      Tag("p", <<Tag("i", <<Text(<<"c">>)>>), Tag("em", <<Text(<<"d">>)>>)>>)>>

\* <ol><li>a</li><p>q</p><li>b</li></ol><ol><li>c</li></ol>
DocOlSiblings ==
    <<Tag("ol", <<Li(<<Text(<<"a">>)>>), Tag("p", <<Text(<<"q">>)>>), Li(<<Text(<<"b">>)>>)>>),
      Tag("ol", <<Li(<<Text(<<"c">>)>>)>>)>>

\* <nav>x</nav><p>y</p>
DocNav == <<Tag("nav", <<Text(<<"x">>)>>), Tag("p", <<Text(<<"y">>)>>)>>

\* <em>a</em> <em>b</em>
DocEm == <<Tag("em", <<Text(<<"a">>)>>), Text(<<" ">>), Tag("em", <<Text(<<"b">>)>>)>>

Docs ==
    {DocNestedOl, DocNestedUl, DocMixedList, DocHello, DocPreSpaces, DocPreBlank,
     DocPreStar, DocCode, DocCodeMixed, DocCodeNested, DocStar, DocScript,
     DocPreTitle, DocCodeScript, DocFoo, DocHtml, DocLink, DocQuote, DocNav, DocEm,
     DocOlSiblings}

\* strings that are empty or whitespace only; html.parser turns a
\* whitespace-only string into one text node
BlankStrings == {<<>>, <<" ">>, <<"\n", "\t">>}

Inputs ==
    {[html |-> Serialize(d, 1), dom |-> d] : d \in Docs}
      \cup {[html |-> b, dom |-> IF b = <<>> THEN <<>> ELSE <<Text(b)>>] : b \in BlankStrings}
      \cup {[html |-> None, dom |-> <<>>],
            \* a stray closing tag: the parser drops it and builds an empty tree
            [html |-> <<"</", "p", ">">>, dom |-> <<>>]}

NoRules == [t \in {} |-> "-"]

\* the constructor arguments callers pass (custom_rules, ignore_tags)
ConstructorArgs ==
    {[custom_rules |-> NoRules, ignore_tags |-> {}],
     [custom_rules |-> NoRules, ignore_tags |-> {"nav"}],
     [custom_rules |-> [t \in {"p"} |-> "custom_badsig"], ignore_tags |-> {}],
     [custom_rules |-> [t \in {"p"} |-> "custom_raise"], ignore_tags |-> {}],
     [custom_rules |-> [t \in {"h1", "foo"} |-> "custom_ok"], ignore_tags |-> {"nav"}],
     \* keys written in upper case
     [custom_rules |-> [t \in {"H1"} |-> "custom_ok"], ignore_tags |-> {"NAV"}]}

----------------------------------------------------------------------------
(* The converter as a state machine: instances are constructed and convert *)
(* is called on any of them, in any order.                                 *)

NoCall == [self |-> 0, html |-> None, dom |-> <<>>, status |-> "none", out |-> <<>>,
           cache_before |-> {}]

\* the threads that may call convert, and a thread that has not called it
Threads == {1, 2}
Idle == [pc |-> "idle", self |-> 0, html |-> None, dom |-> <<>>,
         root |-> [name |-> "[document]", children |-> <<>>], i |-> 1, md |-> <<>>,
         status |-> "none", out |-> <<>>]
NoThreads == [t \in Threads |-> Idle]

Env(i) == [self |-> i, rules |-> converters[i].rules, ignore |-> converters[i].ignore]

\* html_to_markdown_interactive.py line 21: the module-level instance
Init ==
    /\ converters = <<NewConverter(NoRules, {})>>
    /\ cache = {}
    /\ last = NoCall
    /\ log = {}
    /\ ncalls = 0
    /\ arg = None
    /\ res = NotApplied
    /\ threads = NoThreads

\* MarkdownConverter(custom_rules=..., ignore_tags=...)
Construct(a) ==
    /\ Len(converters) < MaxInstances
    /\ converters' = Append(converters, NewConverter(a.custom_rules, a.ignore_tags))
    /\ UNCHANGED <<cache, last, log, ncalls, arg, res, threads>>

\* converters[i].convert(html_content)
Convert(i, input) ==
    /\ i <= Len(converters)
    /\ ncalls < MaxCalls
    /\ \E r \in {convert(Env(i), input.html, input.dom, cache)} :
           /\ cache' = r.cache
           /\ log' = r.log
           /\ last' = [self |-> i, html |-> input.html, dom |-> input.dom,
                       status |-> r.status, out |-> r.out, cache_before |-> cache]
    /\ ncalls' = ncalls + 1
    /\ UNCHANGED <<converters, arg, res, threads>>

\* the inputs of a session: the ones whose conversions meet in the cache,
\* and the invalid ones
SessionInputs ==
    {[html |-> Serialize(d, 1), dom |-> d] : d \in {DocHello, DocPreStar, DocStar, DocNestedOl}}
      \cup {[html |-> <<>>, dom |-> <<>>],
            [html |-> <<" ">>, dom |-> <<Text(<<" ">>)>>],
            [html |-> <<"</", "p", ">">>, dom |-> <<>>]}

Next ==
    \/ \E a \in ConstructorArgs : Construct(a)
    \/ \E i \in 1..MaxInstances, input \in SessionInputs : Convert(i, input)

\* a session: instances are built and reused, as the interactive module does
Spec == Init /\ [][Next]_vars

\* a batch run (convert_file, lines 241-243): one instance per input, built
\* with any of the constructor arguments, converts one input
InitSingle ==
    /\ \E a \in ConstructorArgs :
           converters = <<NewConverter(a.custom_rules, a.ignore_tags)>>
    /\ cache = {}
    /\ last = NoCall
    /\ log = {}
    /\ ncalls = 0
    /\ arg = None
    /\ res = NotApplied
    /\ threads = NoThreads

ConvertSingle(input) == ncalls = 0 /\ Convert(1, input)

NextSingle == \E input \in Inputs : ConvertSingle(input)

SpecSingle == InitSingle /\ [][NextSingle]_vars

----------------------------------------------------------------------------
(* Threads calling convert without coordination.  Each thread makes one    *)
(* call; the calls interleave between the elements of the list             *)
(* comprehension of line 216 (a thread switch can also fall inside the     *)
(* walk of one child, which adds interleavings and removes none).  The     *)
(* lru_cache is the one object the threads share.                          *)

\* two instances: the default one and one built with any of the arguments
InitConcurrent ==
    /\ \E a \in ConstructorArgs :
           converters = <<NewConverter(NoRules, {}),
                          NewConverter(a.custom_rules, a.ignore_tags)>>
    /\ cache = {}
    /\ last = NoCall
    /\ log = {}
    /\ ncalls = 0
    /\ arg = None
    /\ res = NotApplied
    /\ threads = NoThreads

\* lines 202-211: thread t enters converters[i].convert(html_content)
StartConvert(t, i, input) ==
    /\ threads[t].pc = "idle"
    /\ i <= Len(converters)
    /\ threads' = [threads EXCEPT ![t] =
           IF _validate_input(input.html, input.dom) # "ok"
           THEN [Idle EXCEPT !.pc = "done", !.self = i, !.html = input.html,
                             !.dom = input.dom, !.status = "ValueError"]
           ELSE [Idle EXCEPT !.pc = "walking", !.self = i, !.html = input.html,
                             !.dom = input.dom, !.root = root_element(input.dom)]]
    /\ UNCHANGED <<converters, cache, last, log, ncalls, arg, res>>

\* line 216: thread t converts the next child of its root element
WalkPart(t) ==
    LET th == threads[t]
    IN  /\ th.pc = "walking"
        /\ th.i <= Len(th.root.children)
        /\ \E r \in {_convert_node_to_markdown(Env(th.self), "pos", th.root.children[th.i],
                                               th.root.name, 0, "None", 1,
                                               [cache |-> cache, log |-> {}])} :
               /\ cache' = r.cache
               /\ threads' = [threads EXCEPT ![t] =
                      IF r.err # "none"
                      THEN [th EXCEPT !.pc = "done", !.status = r.err]
                      ELSE [th EXCEPT !.i = th.i + 1, !.md = th.md \o r.md]]
        /\ UNCHANGED <<converters, last, log, ncalls, arg, res>>

\* lines 219-223: thread t cleans up and returns
FinishConvert(t) ==
    LET th == threads[t]
    IN  /\ th.pc = "walking"
        /\ th.i > Len(th.root.children)
        /\ threads' = [threads EXCEPT ![t] =
               [th EXCEPT !.pc = "done", !.status = "ok", !.out = cleanup(th.md)]]
        /\ UNCHANGED <<converters, cache, last, log, ncalls, arg, res>>

NextConcurrent ==
    \/ \E t \in Threads, i \in 1..MaxInstances, input \in SessionInputs :
           StartConvert(t, i, input)
    \/ \E t \in Threads : WalkPart(t)
    \/ \E t \in Threads : FinishConvert(t)

SpecConcurrent == InitConcurrent /\ [][NextConcurrent]_vars

----------------------------------------------------------------------------
(* The pure functions on their own: the argument is drawn at the start and *)
(* the function is applied to it once.                                     *)

EscAlphabet == escape_chars \cup {"\\", "a"}
NormAlphabet == {"a", " ", "\n"}

IdleConverter ==
    /\ converters = <<NewConverter(NoRules, {})>>
    /\ cache = {}
    /\ last = NoCall
    /\ log = {}
    /\ ncalls = 0
    /\ threads = NoThreads

InitEscape ==
    /\ IdleConverter
    /\ arg \in StrsUpTo(EscAlphabet, MaxEscLen) \cup {None}
    /\ res = NotApplied

\* escape_markdown_chars(arg)
ApplyEscape ==
    /\ res = NotApplied
    /\ res' = escape_markdown_chars(arg)
    /\ UNCHANGED <<converters, cache, last, log, ncalls, arg, threads>>

SpecEscape == InitEscape /\ [][ApplyEscape]_vars

InitNormalize ==
    /\ IdleConverter
    /\ arg \in StrsUpTo(NormAlphabet, MaxNormLen)
    /\ res = NotApplied

\* the clean-up of convert, applied to arg
ApplyCleanup ==
    /\ res = NotApplied
    /\ res' = cleanup(arg)
    /\ UNCHANGED <<converters, cache, last, log, ncalls, arg, threads>>

SpecNormalize == InitNormalize /\ [][ApplyCleanup]_vars

----------------------------------------------------------------------------
(* Claims *)

\* C1: for every li element, whatever its list context, the default li rule
\* returns two spaces repeated max(list_depth-1, 0) times, then the marker
\* ("<item_index>. " under an ordered list, otherwise "* "), then the trimmed
\* converted children, then one newline.
C1_LiRuleShape ==
    \A f \in log :
        (f.step = "rule" /\ f.rule = "li") =>
            f.md = Repeat(<<" ", " ">>, IF f.list_level - 1 > 0 THEN f.list_level - 1 ELSE 0)
                     \o (IF f.list_type = "ol" THEN IntStr(f.item_number) \o <<".", " ">>
                         ELSE <<"*", " ">>)
                     \o strip(f.children_md) \o <<"\n">>

\* C2: a rule that fails in any way makes the walker return the children
\* markdown and the conversion goes on; the only error that leaves convert
\* is the invalid-input error.
C2_RuleFailureContained ==
    /\ \A f \in log : f.step # "raised"
    /\ last.status \notin {"none", "ok"} =>
           /\ last.status = "ValueError"
           /\ _validate_input(last.html, last.dom) # "ok"

\* C3: convert of an empty or whitespace-only string fails with ValueError
\* before any node is walked: no frame, no output, and the rule tables,
\* ignore sets and cache are left as they were.
C3_BlankInputFailsFast ==
    [][(ncalls' = ncalls + 1 /\ last'.html # None
          /\ (last'.html = <<>> \/ isspace(last'.html)))
       => (/\ last'.status = "ValueError"
           /\ last'.out = <<>>
           /\ log' = {}
           /\ cache' = cache
           /\ converters' = converters)]_vars

C3_Witness ==
    /\ last.status = "ValueError"
    /\ last.html = <<" ">>
    /\ log = {}
    /\ cache # {}
    /\ \E e \in cache : e.key.self = last.self

\* C4 (as claimed): the paragraph "Hello ", <strong>world</strong>, "!"
\* yields  Hello **world**\!  and the blank-line terminator before
\* post-processing.
C4_HelloWithSpace ==
    (/\ last.status # "none"
     /\ last.dom = DocHello
     /\ \A e \in last.cache_before : e.key.self # last.self
     /\ converters[last.self].rules["p"] = "p")
    => \E f \in log :
           /\ f.element = DocHello[1]
           /\ f.md = <<"H", "e", "l", "l", "o", " ", "*", "*", "w", "o", "r", "l", "d",
                       "*", "*", "\\", "!", "\n", "\n">>

\* C4 (amended): on a converter that has memoized nothing yet and has the
\* default p rule, that paragraph yields  Hello**world**\!  (the text
\* "Hello " is trimmed, so no space precedes the opening **; the ! is
\* escaped) and the blank-line terminator before post-processing.
C4_HelloTrimmed ==
    (/\ last.status # "none"
     /\ last.dom = DocHello
     /\ \A e \in last.cache_before : e.key.self # last.self
     /\ converters[last.self].rules["p"] = "p")
    => /\ last.status = "ok"
       /\ \E f \in log : f.element = DocHello[1] /\ f.step = "rule"
       /\ \A f \in log :
              f.element = DocHello[1] =>
                  f.md = <<"H", "e", "l", "l", "o", "*", "*", "w", "o", "r", "l", "d",
                           "*", "*", "\\", "!", "\n", "\n">>
       /\ last.out = <<"H", "e", "l", "l", "o", "*", "*", "w", "o", "r", "l", "d",
                       "*", "*", "\\", "!">>

C4_Witness ==
    /\ last.status = "ok"
    /\ last.dom = DocHello
    /\ ncalls = 2
    /\ last.cache_before # {}
    /\ \A e \in last.cache_before : e.key.self # last.self
    /\ \E f \in log : f.step = "text" /\ f.element.text = <<"H", "e", "l", "l", "o", " ">>
                        /\ f.md = <<"H", "e", "l", "l", "o">>

\* C5: for every pre element the string returned by convert holds, between
\* the two fence lines, the literal text of the element, unescaped and with
\* its whitespace and newlines exactly as in the input.
C5_PreVerbatim ==
    (last.status = "ok" /\ converters[last.self].rules["pre"] = "pre") =>
        LET root == root_element(last.dom)
            Contains(s, pat) ==
                \E i \in 1..(Len(s) - Len(pat) + 1) : SubSeq(s, i, i + Len(pat) - 1) = pat
        IN  \A i \in 1..Len(root.children) :
                LET element == root.children[i]
                IN  (element.kind = "tag" /\ element.name = "pre") =>
                        Contains(last.out,
                                 Fence \o <<"\n">> \o get_text(element) \o <<"\n">> \o Fence)

\* C6: for every code element the default code rule returns a backtick, the
\* escaped concatenation of all the text below the element, and a backtick,
\* whatever the shape of its children.
C6_CodeFlattened ==
    LET RECURSIVE AllText(_, _)
        AllText(nodes, i) ==
            IF i > Len(nodes) THEN <<>>
            ELSE (IF nodes[i].kind = "text" THEN nodes[i].text
                  ELSE AllText(nodes[i].children, 1)) \o AllText(nodes, i + 1)
    IN  \A f \in log :
            (f.step = "rule" /\ f.rule = "code") =>
                f.md = <<Backtick>> \o escape_markdown_chars(AllText(f.element.children, 1))
                         \o <<Backtick>>

\* C7: the string convert returns depends only on the input and on the
\* instance's rule table and ignore set: it is what a freshly constructed
\* instance with the same configuration returns, whatever was converted
\* before.
C7_CallOrderIndependent ==
    last.status # "none" =>
        LET fresh == convert(Env(last.self), last.html, last.dom, {})
        IN  last.status = fresh.status /\ last.out = fresh.out

\* C8: the ignore set holds the six defaults, and an element whose tag is in
\* the ignore set contributes nothing: its children are not walked, no rule
\* is called for it, and the output is the one the same tree gives with
\* every ignored element emptied.
C8_IgnoredContributeNothing ==
    /\ \A i \in 1..Len(converters) :
           {"script", "style", "head", "title", "meta", "link"} \subseteq converters[i].ignore
    /\ last.status # "none" =>
           LET ignore == converters[last.self].ignore
               RECURSIVE Emptied(_, _)
               Emptied(nodes, i) ==
                   IF i > Len(nodes) THEN <<>>
                   ELSE LET n == nodes[i]
                        IN  <<IF n.kind = "tag" /\ n.name \in ignore
                              THEN [n EXCEPT !.children = <<>>]
                              ELSE [n EXCEPT !.children = Emptied(n.children, 1)]>>
                                \o Emptied(nodes, i + 1)
               pruned == convert(Env(last.self), last.html, Emptied(last.dom, 1),
                                 last.cache_before)
           IN  /\ \A f \in log :
                      /\ f.parent \notin ignore
                      /\ (f.element.kind = "tag" /\ f.element.name \in ignore) =>
                             (f.step \in {"ignored", "hit"} /\ f.md = <<>>)
               /\ last.status = pruned.status
               /\ last.out = pruned.out

\* C9: escape_markdown_chars returns its argument with one backslash put
\* before each backslash and each of ` * _ { } [ ] ( ) # + . ! - and every
\* other character unchanged and in order; None and "" give "".
C9_EscapeExact ==
    res # NotApplied =>
        LET escaped == {"\\", Backtick, "*", "_", "{", "}", "[", "]", "(", ")", "#", "+",
                        ".", "!", "-"}
            RECURSIVE Prefixed(_)
            Prefixed(s) ==
                IF s = <<>> THEN <<>>
                ELSE (IF Head(s) \in escaped THEN <<"\\", Head(s)>> ELSE <<Head(s)>>)
                         \o Prefixed(Tail(s))
        IN  res = IF arg = None THEN <<>> ELSE Prefixed(arg)

C9_Witness ==
    /\ arg = <<"\\", "*", "a">>
    /\ res = <<"\\", "\\", "\\", "*", "a">>

\* C10: the clean-up of convert (strip, then every run of three or more
\* newlines becomes two) is idempotent: applied to its own result it
\* returns that result.
C10_CleanupIdempotent == res # NotApplied => cleanup(res) = res

C10_Witness ==
    /\ arg = <<" ", "a", "\n", "\n", "\n", "\n", "a">>
    /\ res = <<"a", "\n", "\n", "a">>

\* C11: the result of the clean-up, which is what a successful convert
\* returns, has no run of three or more newlines and neither starts nor ends
\* with a whitespace character.
C11_NoBlankRunNoMargin ==
    res # NotApplied =>
        /\ \A i \in 1..(Len(res) - 2) :
               ~(res[i] = "\n" /\ res[i + 1] = "\n" /\ res[i + 2] = "\n")
        /\ res # <<>> => (res[1] \notin WS /\ res[Len(res)] \notin WS)

C11_Witness ==
    /\ arg = <<"\n", "a", "\n", "\n", "\n", "a", " ">>
    /\ res = <<"a", "\n", "\n", "a">>

\* C12: for every img element the default img rule returns "![", the
\* escaped alt attribute (empty when absent), "](", the src attribute (empty
\* when absent) and ")", with nothing between "](" and the src value.
C12_ImgRuleExact ==
    \A f \in log :
        (f.step = "rule" /\ f.rule = "img") =>
            f.md = <<"!", "[">> \o escape_markdown_chars(Get(f.element, "alt"))
                     \o <<"]", "(">> \o Get(f.element, "src") \o <<")">>

\* C13: convert calls of different threads, on the same instance or on
\* different ones and interleaved in any way, each return what the same
\* call returns when it runs alone: nothing memoized for one input reaches
\* the conversion of another.
C13_ConcurrentAsAlone ==
    \A t \in Threads :
        threads[t].pc = "done" =>
            LET alone == convert(Env(threads[t].self), threads[t].html, threads[t].dom, {})
            IN  threads[t].status = alone.status /\ threads[t].out = alone.out

\* C14: the keys of the rule table and of the ignore set are matched without
\* regard to letter case: an override given under a key that differs from an
\* element's tag name only in case (H1 for h1) is the rule applied to that
\* element, and an extra ignored tag given in another case (NAV for nav)
\* makes the elements of that tag ignored.
C14_KeysCaseInsensitive ==
    last.status # "none" =>
        LET rules == converters[last.self].rules
            ignore == converters[last.self].ignore
            Lower(k) == CASE k = "H1" -> "h1" [] k = "NAV" -> "nav" [] OTHER -> k
        IN  \A f \in log :
                (f.element.kind = "tag" /\ f.step # "hit") =>
                    /\ \A k \in ignore : Lower(k) = f.element.name => f.step = "ignored"
                    /\ \A k \in DOMAIN rules :
                           (/\ rules[k] \in CustomRules
                            /\ Lower(k) = f.element.name
                            /\ f.step \notin {"ignored", "br"})
                           => f.rule = rules[k]

\* C15: the item number passed to an li that is a direct child of an ol is 1
\* plus the number of li elements before it among the children of that ol:
\* text nodes and other children do not advance the counter, and the items
\* of nested or sibling lists neither advance nor reset it.
C15_ItemNumberCountsDirectItems ==
    LET Expected(ol, j) == 1 + Cardinality({k \in 1..(j - 1) : IsLi(ol.children[k])})
        \* the ol elements whose children were all walked
        Walked == {f.element : f \in {g \in log : /\ g.element.kind = "tag"
                                                  /\ g.element.name = "ol"
                                                  /\ g.step \in {"rule", "fallback"}}}
        \* the ol elements of the tree
        RECURSIVE Ols(_, _)
        Ols(nodes, i) ==
            IF i > Len(nodes) THEN {}
            ELSE (IF nodes[i].kind = "tag" /\ nodes[i].name = "ol" THEN {nodes[i]} ELSE {})
                     \cup Ols(nodes[i].children, 1) \cup Ols(nodes, i + 1)
    IN  /\ \A ol \in Walked :
               \A j \in 1..Len(ol.children) :
                   IsLi(ol.children[j]) =>
                       \E g \in log : /\ g.element = ol.children[j]
                                      /\ g.parent = "ol"
                                      /\ g.item_number = Expected(ol, j)
        /\ \A g \in log :
               (IsLi(g.element) /\ g.parent = "ol") =>
                   \E ol \in Ols(last.dom, 1) :
                       \E j \in 1..Len(ol.children) :
                           /\ ol.children[j] = g.element
                           /\ g.item_number = Expected(ol, j)

C15_Witness ==
    /\ last.dom = DocMixedList
    /\ \E g \in log : g.element = Text(<<"\n">>) /\ g.parent = "ol"
    /\ \E g \in log : /\ g.element = Li(<<Text(<<"z">>)>>)
                      /\ g.parent = "ol"
                      /\ g.item_number = 2

\* C16: for every text node the walker returns the text verbatim when the
\* parent is pre, the empty string when the parent is not pre and the text
\* is whitespace only, and the escaped trimmed text otherwise, whatever was
\* walked before in this conversion or an earlier one.
C16_TextByParentOnly ==
    \A f \in log :
        f.element.kind = "text" =>
            f.md = IF f.parent = "pre" THEN f.element.text
                   ELSE IF isspace(f.element.text) THEN <<>>
                   ELSE escape_markdown_chars(strip(f.element.text))

\* C17: no memoized walker result computed during one convert call is
\* returned during another: every cache hit of a call is on an entry stored
\* by that same call.
C17_NoHitAcrossCalls ==
    \A f \in log :
        f.step = "hit" =>
            \A e \in last.cache_before :
                e.key # [self |-> last.self, form |-> f.form, element |-> f.element,
                         list_level |-> f.list_level, list_type |-> f.list_type,
                         item_number |-> f.item_number]

\* C18: each child of the conversion root is walked at depth 0, with no list
\* kind and item number 1, and every node below is walked at the depth that
\* counts its ul and ol proper ancestors inside the root, with the kind of
\* the nearest of them (none when there is none).
C18_ContextFollowsAncestors ==
    last.status # "none" =>
        LET root == root_element(last.dom)
            \* the nodes of the tree, each with the context its ancestors give
            RECURSIVE Ctx(_, _, _, _, _)
            Ctx(nodes, parent_name, depth, kind, i) ==
                IF i > Len(nodes) THEN {}
                ELSE LET n == nodes[i]
                         is_list == n.kind = "tag" /\ n.name \in {"ul", "ol"}
                     IN  {[element |-> n, parent |-> parent_name, list_level |-> depth,
                           list_type |-> kind]}
                           \cup Ctx(n.children, n.name, IF is_list THEN depth + 1 ELSE depth,
                                    IF is_list THEN n.name ELSE kind, 1)
                           \cup Ctx(nodes, parent_name, depth, kind, i + 1)
            expected == Ctx(root.children, root.name, 0, "None", 1)
        IN  /\ \A f \in log :
                   /\ [element |-> f.element, parent |-> f.parent,
                       list_level |-> f.list_level, list_type |-> f.list_type] \in expected
                   /\ f.form = "pos" =>
                          (f.list_level = 0 /\ f.list_type = "None" /\ f.item_number = 1)
            /\ last.status = "ok" =>
                   \A i \in 1..Len(root.children) :
                       \E f \in log : /\ f.form = "pos"
                                      /\ f.element = root.children[i]
                                      /\ f.parent = root.name

C18_Witness ==
    /\ last.dom = DocNestedUl
    /\ last.status = "ok"
    /\ \E f \in log : /\ f.element = Text(<<"c">>)
                      /\ f.parent = "li"
                      /\ f.list_level = 3
                      /\ f.list_type = "ul"
    /\ \E f \in log : f.form = "pos" /\ f.element = DocNestedUl[1] /\ f.list_level = 0

====
